---- MODULE Spec2Model ----
(***************************************************************************)
(* paper-search-mcp: the local hybrid index (Lexical Index + Vector Store  *)
(* behind LocalIndex) and the federated search pipeline.                   *)
(*                                                                         *)
(* The specifications of the module:                                       *)
(*   SpecFulltext  drives FulltextIndex directly (add_paper/delete/commit) *)
(*   SpecIndex     drives LocalIndex (index_paper/delete), one statement   *)
(*                 of the method body per step, with failures and crashes  *)
(*   SpecFed       runs federated_search with concurrent provider tasks    *)
(*   SpecFedStall  the same, where a provider's search may never return    *)
(*   SpecDedup     applies deduplicate_and_rank to bounded input lists     *)
(*   SpecHybrid    applies hybrid_search to bounded stores                 *)
(*   SpecVector    drives VectorStore directly (add_paper/delete/get_paper)*)
(*   SpecSearchLocal  runs the search_local tool on bounded stores         *)
(*   SpecGetPaper  runs the get_paper tool, one provider per step          *)
(*   SpecQuota     runs federated_search with the caps search_papers passes*)
(*   SpecServer    runs concurrent tool invocations against local_index    *)
(***************************************************************************)
EXTENDS Integers, Sequences, FiniteSets, TLC

\* ------------------------------------------------------------------ bounds
NumIds == 2          \* distinct paper ids
NumTitles == 1       \* distinct title texts (one indexed term each)
MaxCalls == 3        \* LocalIndex calls per behaviour
MaxStaged == 2       \* FulltextIndex calls staged between commits
MaxLimit == 2        \* search limits 1..MaxLimit
MaxCap == 2          \* federated_search result caps 1..MaxCap
MaxInput == 3        \* records in a list given to deduplicate_and_rank
MaxRows == 3         \* Vector Store rows given to hybrid_search
MaxVersions == 2     \* versions of one record (distinct titles) written to the Vector Store
MaxRequest == 101    \* max_results parameters 0..MaxRequest given to search_papers

\* ------------------------------------------------------- program constants
EMBEDDING_DIMENSION == 768
RRF_K == 60
DefaultMaxResults == 10
MaxResultsCap == 100

Ids == 1..NumIds
Titles == 1..NumTitles
Limits == 1..MaxLimit

\* PaperResult as the index sees it: the join key and the indexed text.
Papers == [id : Ids, title : Titles]

\* An embedding: its length and, abstracting the floats, a point on a line.
\* mock_embedding is a deterministic function of the text: one point per text.
mock_embedding(text) == [len |-> EMBEDDING_DIMENSION, pt |-> text]

\* The embeddings index_paper is given for a paper: the paper's own, or one
\* of the wrong length.
Embeddings(paper) ==
  {mock_embedding(paper.title),
   [len |-> EMBEDDING_DIMENSION - 1, pt |-> mock_embedding(paper.title).pt]}

QueryEmbeddings == {mock_embedding(t) : t \in Titles}

NoPaper == [id |-> 0, title |-> 0]

VARIABLES
  ftStaged,      \* IndexWriter: operations staged since the last writer commit
  ftCommitted,   \* the index as last published by writer.commit()
  ftReader,      \* the snapshot reader.searcher() serves
  ftPending,     \* history: operations staged since the last successful commit()
  ftLast,        \* history: the last FulltextIndex call and its outcome
  rows,          \* VectorStore: the rows of table "papers", in write order
  pc,            \* LocalIndex: the statement the running call is at
  call,          \* LocalIndex: the running (or last) call and its arguments
  steps,         \* history: the statements the call has executed
  rows0,         \* history: the Vector Store when the call started
  result,        \* what the last call returned
  nCalls,        \* calls started
  deleted,       \* history: ids deleted successfully and not indexed since
  vecWriteFailed,\* history: some index_paper failed at the Vector Store write
  otherFailure,  \* history: some other step failed, or the process crashed
  interrupted,   \* history: id whose delete stopped between commit and Vector Store delete
  source_filter, \* federated_search argument: no filter, or a list of names
  max_results,   \* federated_search argument: the result cap
  responses,     \* what each provider's search answers to the query
  fedPc,         \* per invocation of federated_search: where it is
  tasks,         \* per invocation: the state of each spawned provider task
  finished,      \* history, per invocation: providers in the order their tasks ended
  spawned,       \* history, per invocation: providers a task was spawned for, in order
  handle,        \* per invocation: index of the JoinHandle being awaited
  all_results,   \* per invocation: the records collected so far
  returned,      \* per invocation: the list federated_search returned
  quota,         \* history, per invocation: the per_source each spawned task was given
  ddResults,     \* deduplicate_and_rank argument: results
  ddLimit,       \* deduplicate_and_rank argument: limit
  ddOut,         \* what deduplicate_and_rank returned
  ddPc,          \* deduplicate_and_rank: "ready" or "returned"
  hsReader,      \* hybrid_search: the snapshot the Lexical Index serves
  hsRows,        \* hybrid_search: the rows of the Vector Store
  hsCall,        \* hybrid_search: the mode and limit of the last call
  hsOut,         \* hybrid_search: what the last call returned
  vsLast,        \* VectorStore driven directly: the last call and what it returned
  slPapers,      \* search_local: the records the last call resolved
  gpParams,      \* get_paper tool: the source parameter and the prefix of the id
  gpLocal,       \* get_paper tool: what the local index answers for the id
  gpAnswers,     \* get_paper tool: what each provider's get_paper answers for the id
  gpPc,          \* get_paper tool: "idle", "local", "loop", "done"
  gpAt,          \* get_paper tool: the provider the loop is at
  gpAsked,       \* history: the providers queried, in order
  gpResult,      \* get_paper tool: what the call returned
  mutex,         \* server: the tool invocation holding the guard of local_index, or 0
  thPc,          \* server, per tool invocation: the statement it is at
  thTool,        \* server, per tool invocation: the tool it runs
  thTodo,        \* server, per tool invocation: the records still to index
  thSaw          \* history, per tool invocation: a read saw a row whose call had not committed

ftVars == <<ftStaged, ftCommitted, ftReader, ftPending, ftLast>>
ixVars == <<rows, pc, call, steps, rows0, result, nCalls, deleted,
            vecWriteFailed, otherFailure, interrupted>>
fedVars == <<source_filter, max_results, responses, fedPc, tasks, finished,
             spawned, handle, all_results, returned, quota>>
gpVars == <<gpParams, gpLocal, gpAnswers, gpPc, gpAt, gpAsked, gpResult>>
srvVars == <<mutex, thPc, thTool, thTodo, thSaw>>
toolVars == <<vsLast, slPapers, gpVars, srvVars>>
fnVars == <<ddResults, ddLimit, ddOut, ddPc, hsReader, hsRows, hsCall, hsOut, toolVars>>
vars == <<ftVars, ixVars, fedVars, fnVars>>

\* ------------------------------------------------------------ Lexical Index

DeleteTerm(id) == [op |-> "delete_term", id |-> id, title |-> 0]
AddDocument(id, title) == [op |-> "add_document", id |-> id, title |-> title]

\* The effect of one staged operation on a list of documents: delete_term
\* removes every earlier document carrying the id, add_document appends.
ApplyOp(docs, o) ==
  IF o.op = "delete_term"
    THEN SelectSeq(docs, LAMBDA d : d.id /= o.id)
    ELSE Append(docs, [id |-> o.id, title |-> o.title])

RECURSIVE ApplyOps(_, _)
ApplyOps(docs, ops) ==
  IF ops = <<>> THEN docs
  ELSE ApplyOps(ApplyOp(docs, Head(ops)), Tail(ops))

\* Mutant of FtAddPaper: the document is added without retracting the id first.
FtAddPaper_NoRetract(staged, id, title, ok) ==
  IF ok THEN Append(staged, AddDocument(id, title)) ELSE staged

\* FulltextIndex::add_paper: delete_term for the id, then add_document; when
\* add_document fails the delete_term stays staged and the error is returned.
FtAddPaper(staged, id, title, ok) ==
  IF ok THEN staged \o <<DeleteTerm(id), AddDocument(id, title)>>
  ELSE Append(staged, DeleteTerm(id))

\* Mutant of FtDelete: nothing is staged.
FtDelete_StagesNothing(staged, id) == staged

\* FulltextIndex::delete
FtDelete(staged, id) == Append(staged, DeleteTerm(id))

\* FulltextIndex::commit has two fallible statements.
CommitOutcomes == {"ok", "commit_err", "reload_err"}

\* writer.commit(): publishes the staged operations, or fails and publishes nothing.
FtWriterCommit(committed, staged, outcome) ==
  IF outcome = "commit_err" THEN committed ELSE ApplyOps(committed, staged)

FtStagedAfterCommit(staged, outcome) ==
  IF outcome = "commit_err" THEN staged ELSE <<>>

\* Mutant of FtReaderAfterCommit: the error of writer.commit() is ignored and
\* the reader shows what was staged.
FtReaderAfterCommit_IgnoresError(reader, committed, staged, outcome) ==
  IF outcome = "reload_err" THEN reader ELSE ApplyOps(committed, staged)

\* reader.reload(): runs only after writer.commit() succeeded.
FtReaderAfterCommit(reader, committed, staged, outcome) ==
  IF outcome = "ok" THEN FtWriterCommit(committed, staged, outcome) ELSE reader

\* FulltextIndex::count
FtCount(reader) == Len(reader)

SeqIds(s) == {s[i].id : i \in 1..Len(s)}

\* ---------------------------------------------------------------- helpers

Take(s, n) == SubSeq(s, 1, IF n < Len(s) THEN n ELSE Len(s))

\* Sort keys are pairs, compared first component first.
KeyLess(a, b) == a[1] < b[1] \/ (a[1] = b[1] /\ a[2] < b[2])

\* Stable insertion of x into s, already ordered by ascending key: x goes
\* after every element whose key is not greater than its own.
RECURSIVE InsertStable(_, _)
InsertStable(s, x) ==
  IF s = <<>> THEN <<x>>
  ELSE IF KeyLess(x.key, Head(s).key) THEN <<x>> \o s
  ELSE <<Head(s)>> \o InsertStable(Tail(s), x)

\* A stable sort (Vec::sort_by) on the field key, ascending: elements of equal
\* key keep their input order.
RECURSIVE SortByKey(_)
SortByKey(s) ==
  IF s = <<>> THEN <<>>
  ELSE InsertStable(SortByKey(SubSeq(s, 1, Len(s) - 1)), s[Len(s)])

\* ----------------------------------------------------- Lexical Index: search

\* A query is a non-empty set of terms (matched against the documents' text)
\* or the text the query parser rejects.
BadQuery == {}
Queries == SUBSET Titles

\* BM25 over one-term documents of equal length orders the hits by inverse
\* document frequency: the fewer documents carry the term, the higher the score.
Bm25(reader, d) ==
  Len(reader) + 1 - Cardinality({i \in 1..Len(reader) : reader[i].title = d.title})

\* Mutant of FtSearch: a query that does not parse matches nothing.
FtSearch_EmptyOnParseError(reader, query, limit) ==
  LET matching == SelectSeq(reader, LAMBDA d : d.title \in query)
      scored == [i \in 1..Len(matching) |->
                   [id |-> matching[i].id, score |-> Bm25(reader, matching[i]),
                    key |-> <<0 - Bm25(reader, matching[i]), 0>>]]
  IN [ok |-> TRUE, hits |-> Take(SortByKey(scored), limit)]

\* FulltextIndex::search: parse, collect TopDocs::with_limit(limit), read the
\* stored id of each hit. Equal scores come out in document order.
FtSearch(reader, query, limit) ==
  IF query = BadQuery THEN [ok |-> FALSE, hits |-> <<>>]
  ELSE LET matching == SelectSeq(reader, LAMBDA d : d.title \in query)
           scored == [i \in 1..Len(matching) |->
                        [id |-> matching[i].id, score |-> Bm25(reader, matching[i]),
                         key |-> <<0 - Bm25(reader, matching[i]), 0>>]]
           ranked == SortByKey(scored)
       IN [ok |-> TRUE, hits |-> Take(ranked, limit)]

\* ------------------------------------------------------------- Vector Store

\* VectorStore::add_paper appends one row; it never looks for an existing id.
VecAddPaper(rs, paper, emb) ==
  Append(rs, [id |-> paper.id, title |-> paper.title, pt |-> emb.pt])

\* The write fails when the embedding does not fit the fixed-size column, and
\* may fail in the store (an I/O error); a failed write appends nothing.
VecAddCanSucceed(emb) == emb.len = EMBEDDING_DIMENSION

Distance(row, emb) == (row.pt - emb.pt) * (row.pt - emb.pt)

\* VectorStore::search_similar: nearest first, at most limit rows, one hit per row.
VecSearchSimilar(rs, emb, limit) ==
  LET scored == [i \in 1..Len(rs) |->
                   [id |-> rs[i].id, score |-> Distance(rs[i], emb),
                    key |-> <<Distance(rs[i], emb), 0>>]]
      ranked == SortByKey(scored)
  IN Take(ranked, limit)

\* VectorStore::get_paper: the filter id = '<id>' with limit(1); the scan
\* yields rows in storage order, so the first matching row is returned.
VecGetPaper(rs, id) ==
  LET matching == SelectSeq(rs, LAMBDA r : r.id = id)
  IN IF matching = <<>> THEN NoPaper
     ELSE [id |-> matching[1].id, title |-> matching[1].title]

\* Mutant of VecDelete: only the first matching row is removed.
VecDelete_FirstRowOnly(rs, id) ==
  LET hit == {i \in 1..Len(rs) : rs[i].id = id}
      first == CHOOSE i \in hit : \A j \in hit : i <= j
  IN IF hit = {} THEN rs
     ELSE SubSeq(rs, 1, first - 1) \o SubSeq(rs, first + 1, Len(rs))

\* VectorStore::delete: removes every row matching the filter id = '<id>'.
VecDelete(rs, id) == SelectSeq(rs, LAMBDA r : r.id /= id)

\* VectorStore::count
VecCount(rs) == Len(rs)

\* ------------------------------------------------------- Rank Fusion Engine

\* f32 scores are kept as fixed-point numbers with 29 fractional bits, the
\* resolution an f32 has at 1/61.
RrfUnit == 2 ^ 29
\* Mutant of Rrf: the rank is subtracted.
Rrf_RankSubtracted(rank) == RrfUnit \div (RRF_K - rank + 1)

Rrf(rank) == RrfUnit \div (RRF_K + rank + 1)

Modes == [kind : {"keyword"}, query : Queries, emb : {mock_embedding(0)}]
         \cup [kind : {"vector"}, query : {BadQuery}, emb : QueryEmbeddings]
         \cup [kind : {"hybrid"}, query : Queries, emb : QueryEmbeddings]

\* Mutant of FetchLimit: each store is asked for limit candidates only.
FetchLimit_NoOverfetch(limit) == limit

\* fetch_limit
FetchLimit(limit) == limit * 3

\* Mutant of ScoreKeyword: the raw lexical score is passed on as the score.
ScoreKeyword_RawScore(hits, limit) ==
  Take([i \in 1..Len(hits) |->
          [id |-> hits[i].id, rrf_score |-> hits[i].score,
           bm25_score |-> <<hits[i].score>>, vector_distance |-> <<>>]], limit)

\* KeywordOnly: the lexical hits mapped to ScoredResults by rank, then truncated.
ScoreKeyword(hits, limit) ==
  Take([i \in 1..Len(hits) |->
          [id |-> hits[i].id, rrf_score |-> Rrf(i - 1),
           bm25_score |-> <<hits[i].score>>, vector_distance |-> <<>>]], limit)

\* VectorOnly: the vector hits mapped to ScoredResults by rank, then truncated.
ScoreVector(hits, limit) ==
  Take([i \in 1..Len(hits) |->
          [id |-> hits[i].id, rrf_score |-> Rrf(i - 1),
           bm25_score |-> <<>>, vector_distance |-> <<hits[i].score>>]], limit)

\* The raw score an accumulator keeps for an id: that of its last hit in the
\* list, or none.
LastScore(hits, id) ==
  LET at == {i \in 1..Len(hits) : hits[i].id = id}
  IN IF at = {} THEN <<>>
     ELSE <<hits[CHOOSE i \in at : \A k \in at : k <= i].score>>

\* doc_scores: every occurrence of an id in either list adds its contribution.
RECURSIVE SumRrf(_, _, _)
SumRrf(hits, id, i) ==
  IF i > Len(hits) THEN 0
  ELSE (IF hits[i].id = id THEN Rrf(i - 1) ELSE 0) + SumRrf(hits, id, i + 1)

DocScore(bm25, vec, id) == SumRrf(bm25, id, 1) + SumRrf(vec, id, 1)

\* The HashMap iterates in an arbitrary order and the sort is stable, so items
\* of equal score may come out in any order: all orders the build can produce.
RankedOrders(ids, score) ==
  LET n == Cardinality(ids)
  IN {s \in [1..n -> ids] :
        /\ \A i \in 1..n - 1 : score[s[i]] >= score[s[i + 1]]
        /\ \A i, j \in 1..n : i /= j => s[i] /= s[j]}

\* hybrid_search: the error of a failed search, or the result lists it can
\* return, and the stores it asked.
HybridSearch(reader, rs, mode, limit) ==
  LET fetch_limit == FetchLimit(limit)
      bm25 == FtSearch(reader, mode.query, fetch_limit)
      vec == VecSearchSimilar(rs, mode.emb, fetch_limit)
  IN CASE mode.kind = "keyword" ->
            IF ~bm25.ok THEN [ok |-> FALSE, asked |-> {"fulltext"}, outs |-> {}]
            ELSE [ok |-> TRUE, asked |-> {"fulltext"},
                  outs |-> {ScoreKeyword(bm25.hits, limit)}]
       [] mode.kind = "vector" ->
            [ok |-> TRUE, asked |-> {"vector"}, outs |-> {ScoreVector(vec, limit)}]
       [] OTHER ->
            IF ~bm25.ok THEN [ok |-> FALSE, asked |-> {"fulltext"}, outs |-> {}]
            ELSE LET ids == SeqIds(bm25.hits) \cup SeqIds(vec)
                     sc == [id \in ids |-> DocScore(bm25.hits, vec, id)]
                 IN [ok |-> TRUE, asked |-> {"fulltext", "vector"},
                     outs |-> {Take([i \in DOMAIN s |->
                                       [id |-> s[i], rrf_score |-> sc[s[i]],
                                        bm25_score |-> LastScore(bm25.hits, s[i]),
                                        vector_distance |-> LastScore(vec, s[i])]],
                                    limit) : s \in RankedOrders(ids, sc)}]

\* The ids some search in some mode can return.
Returned(reader, rs, mode, limit) ==
  UNION {SeqIds(out) : out \in HybridSearch(reader, rs, mode, limit).outs}

\* ------------------------------------------- Federated Search: the records

\* Option<T> is a sequence of at most one element.
None == <<>>
Some(x) == <<x>>
IsSome(o) == o /= <<>>
UnwrapOr(o, d) == IF o = <<>> THEN d ELSE o[1]

\* Strings are sequences of characters.
UpperCase == <<"A", "B", "C", "D", "E", "F", "G", "H", "I", "J", "K", "L", "M",
              "N", "O", "P", "Q", "R", "S", "T", "U", "V", "W", "X", "Y", "Z">>
LowerCase == <<"a", "b", "c", "d", "e", "f", "g", "h", "i", "j", "k", "l", "m",
              "n", "o", "p", "q", "r", "s", "t", "u", "v", "w", "x", "y", "z">>
Digits == {"0", "1", "2", "3", "4", "5", "6", "7", "8", "9"}
Letters == {UpperCase[i] : i \in DOMAIN UpperCase} \cup {LowerCase[i] : i \in DOMAIN LowerCase}

\* char::to_lowercase, on ASCII
ToLowerChar(c) ==
  IF \E i \in DOMAIN UpperCase : UpperCase[i] = c
    THEN LowerCase[CHOOSE i \in DOMAIN UpperCase : UpperCase[i] = c]
    ELSE c
IsAlphanumeric(c) == c \in Letters \cup Digits
IsWhitespace(c) == c = " "

\* str::to_lowercase
ToLowercase(str) == [i \in 1..Len(str) |-> ToLowerChar(str[i])]

\* Mutant of EqIgnoreAsciiCase: the names are compared as they are.
EqIgnoreAsciiCase_Exact(a, b) == a = b

\* str::eq_ignore_ascii_case
EqIgnoreAsciiCase(a, b) == ToLowercase(a) = ToLowercase(b)

\* split_whitespace().collect().join(" "): runs of whitespace become one
\* space, leading and trailing whitespace goes.
RECURSIVE CollapseWhitespace(_, _)
CollapseWhitespace(str, gap) ==
  IF str = <<>> THEN <<>>
  ELSE IF IsWhitespace(Head(str)) THEN CollapseWhitespace(Tail(str), TRUE)
  ELSE (IF gap THEN <<" ">> ELSE <<>>) \o <<Head(str)>> \o CollapseWhitespace(Tail(str), FALSE)

LeadingTrimmed(str) ==
  IF str /= <<>> /\ Head(str) = " " THEN Tail(str) ELSE str

\* normalize_title
normalize_title(title) ==
  LeadingTrimmed(CollapseWhitespace(
    SelectSeq(ToLowercase(title), LAMBDA c : IsAlphanumeric(c) \/ IsWhitespace(c)), FALSE))

Min2(a, b) == IF a < b THEN a ELSE b

\* One row of the edit-distance table: row[j + 1] is the distance between the
\* first i characters of a and the first j characters of b.
RECURSIVE LevRow(_, _, _, _)
LevRow(prev, ch, b, row) ==
  IF Len(row) = Len(b) + 1 THEN row
  ELSE LET j == Len(row)
           cost == IF b[j] = ch THEN 0 ELSE 1
       IN LevRow(prev, ch, b,
                 Append(row, Min2(Min2(prev[j + 1] + 1, row[j] + 1), prev[j] + cost)))

RECURSIVE LevRows(_, _, _, _)
LevRows(a, b, i, prev) ==
  IF i > Len(a) THEN prev[Len(b) + 1]
  ELSE LevRows(a, b, i + 1, LevRow(prev, a[i], b, <<prev[1] + 1>>))

\* strsim::levenshtein
levenshtein(a, b) == LevRows(a, b, 1, [j \in 1..Len(b) + 1 |-> j - 1])

\* metadata_score
metadata_score(p) ==
    (IF p.title /= <<>> THEN 1 ELSE 0)
  + (IF p.authors /= <<>> THEN 1 ELSE 0)
  + (IF IsSome(p.abstract_text) THEN 2 ELSE 0)
  + (IF IsSome(p.year) THEN 1 ELSE 0)
  + (IF IsSome(p.doi) THEN 2 ELSE 0)
  + (IF IsSome(p.citation_count) THEN 1 ELSE 0)
  + (IF IsSome(p.pdf_url) THEN 1 ELSE 0)

\* TitleDistanceLimit: titles closer than this are the same paper.
TitleDistanceLimit == 5

\* Mutant of DedupWalk: a title is compared with the last kept record only.
RECURSIVE DedupWalk_ComparesLastKept(_, _, _)
DedupWalk_ComparesLastKept(sorted, seen_dois, deduped) ==
  IF sorted = <<>> THEN deduped
  ELSE LET paper == Head(sorted)
           rest == Tail(sorted)
       IN IF IsSome(paper.doi)
            THEN LET doi_lower == ToLowercase(paper.doi[1])
                 IN IF doi_lower \in seen_dois
                      THEN DedupWalk_ComparesLastKept(rest, seen_dois, deduped)
                      ELSE DedupWalk_ComparesLastKept(rest, seen_dois \cup {doi_lower},
                                                      Append(deduped, paper))
            ELSE LET normalized == normalize_title(paper.title)
                 IN IF /\ deduped /= <<>>
                       /\ levenshtein(normalized, normalize_title(deduped[Len(deduped)].title))
                            < TitleDistanceLimit
                      THEN DedupWalk_ComparesLastKept(rest, seen_dois, deduped)
                      ELSE DedupWalk_ComparesLastKept(rest, seen_dois, Append(deduped, paper))

\* The walk over the richness-sorted list: a record with a DOI is dropped when
\* its lowercased DOI was seen, one without when its normalized title is
\* within the limit of a kept record's.
RECURSIVE DedupWalk(_, _, _)
DedupWalk(sorted, seen_dois, deduped) ==
  IF sorted = <<>> THEN deduped
  ELSE LET paper == Head(sorted)
           rest == Tail(sorted)
       IN IF IsSome(paper.doi)
            THEN LET doi_lower == ToLowercase(paper.doi[1])
                 IN IF doi_lower \in seen_dois
                      THEN DedupWalk(rest, seen_dois, deduped)
                      ELSE DedupWalk(rest, seen_dois \cup {doi_lower}, Append(deduped, paper))
            ELSE LET normalized == normalize_title(paper.title)
                 IN IF \E i \in 1..Len(deduped) :
                         levenshtein(normalized, normalize_title(deduped[i].title))
                           < TitleDistanceLimit
                      THEN DedupWalk(rest, seen_dois, deduped)
                      ELSE DedupWalk(rest, seen_dois, Append(deduped, paper))

WithoutKey(s) == [i \in 1..Len(s) |-> s[i].rec]

\* The two comparators as sort keys (ascending): richer first; more cited
\* first, then newer first.
RichnessKey(p) == <<0 - metadata_score(p), 0>>
RankKey(p) == <<0 - UnwrapOr(p.citation_count, 0), 0 - UnwrapOr(p.year, 0)>>

\* Mutant of SortByRichness: the list is walked in the order it came in.
SortByRichness_Unsorted(s) == s

SortByRichness(s) ==
  WithoutKey(SortByKey([i \in 1..Len(s) |-> [key |-> RichnessKey(s[i]), rec |-> s[i]]]))
\* Mutant of SortByRank: the deduplicated records stay in richness order.
SortByRank_Unsorted(s) == s

SortByRank(s) ==
  WithoutKey(SortByKey([i \in 1..Len(s) |-> [key |-> RankKey(s[i]), rec |-> s[i]]]))

\* deduplicate_and_rank
deduplicate_and_rank(results, limit) ==
  IF results = <<>> THEN results
  ELSE LET by_richness == SortByRichness(results)
           deduped == DedupWalk(by_richness, {}, <<>>)
           ranked == SortByRank(deduped)
       IN Take(ranked, limit)

\* The providers of the server, by name, in the order of `sources`.
sources == << <<"a", "r", "x", "i", "v">>, <<"d", "o", "a", "j">>, <<"a", "d", "s">> >>
Providers == 1..Len(sources)

\* active_sources: the providers some filter entry names, all without a filter.
active_sources(filter) ==
  SelectSeq([i \in Providers |-> i],
            LAMBDA i : IF IsSome(filter)
                         THEN \E k \in 1..Len(filter[1]) :
                                EqIgnoreAsciiCase(filter[1][k], sources[i])
                         ELSE TRUE)

\* Mutant of per_source: the quota is not raised to 5.
per_source_NoFloor(cap, n) == (cap * 2) \div n

\* per_source: (max_results * 2 / active_sources.len()).max(5)
per_source(cap, n) ==
  LET q == (cap * 2) \div n
  IN IF q < 5 THEN 5 ELSE q

\* ------------------------------------------------------------------- Init

InitFt ==
  /\ ftStaged = <<>>
  /\ ftCommitted = <<>>
  /\ ftReader = <<>>
  /\ ftPending = <<>>
  /\ ftLast = [op |-> "open", ok |-> TRUE, batch |-> <<>>]

NoCall == [op |-> "none", paper |-> NoPaper, emb |-> [len |-> 0, pt |-> 0]]

InitIx ==
  /\ rows = <<>>
  /\ pc = "idle"
  /\ call = NoCall
  /\ steps = <<>>
  /\ rows0 = <<>>
  /\ result = "none"
  /\ nCalls = 0
  /\ deleted = {}
  /\ vecWriteFailed = FALSE
  /\ otherFailure = FALSE
  /\ interrupted = 0

\* Two invocations of federated_search are followed, given the same arguments;
\* they share no state, so the second is started when the first has returned.
Runs == {1, 2}

FedPaper(id, title, doi, cites, year) ==
  [id |-> id, title |-> title, authors |-> <<>>, abstract_text |-> None,
   year |-> year, doi |-> doi, citation_count |-> cites, pdf_url |-> None]

PA1 == FedPaper("doaj:1", <<"a", "a", "a", "a", "a">>, None, Some(3), Some(4))
PA2 == FedPaper("arxiv:1", <<"A", "A", "A", "A", "A", "!">>, None, None, Some(4))
PB1 == FedPaper("doaj:2", <<"b", "b", "b", "b", "b">>, None, Some(3), Some(4))
PX1 == FedPaper("ads:1", <<"c", "c", "c", "c", "c">>, Some(<<"1", "/", "x">>), Some(3), Some(2))
PX2 == FedPaper("arxiv:2", <<"x", "x", "x", "x", "x">>, Some(<<"1", "/", "X">>), None, Some(4))

\* What a provider's task can end with: Ok(records), Err(SourceError), or a panic.
Ok(records) == [kind |-> "ok", records |-> records]
Answers ==
  {Ok(<<PA1>>), Ok(<<PB1, PA2>>), Ok(<<PX2, PX1>>),
   [kind |-> "err", records |-> <<>>], [kind |-> "panic", records |-> <<>>]}

Filters ==
  {None,
   Some(<< <<"A", "R", "X", "I", "V">> >>),
   Some(<< <<"d", "o", "a", "j">>, <<"A", "d", "s">>, <<"D", "O", "A", "J">> >>),
   Some(<< <<"c", "o", "r", "e">> >>)}

FedIdle ==
  /\ fedPc = [r \in Runs |-> "idle"]
  /\ tasks = [r \in Runs |-> [i \in Providers |-> "none"]]
  /\ finished = [r \in Runs |-> <<>>]
  /\ spawned = [r \in Runs |-> <<>>]
  /\ handle = [r \in Runs |-> 0]
  /\ all_results = [r \in Runs |-> <<>>]
  /\ returned = [r \in Runs |-> <<>>]
  /\ quota = [r \in Runs |-> [i \in Providers |-> 0]]

\* No call of deduplicate_and_rank or hybrid_search has been made.
NoSearch == [kind |-> "none", query |-> {}, emb |-> [len |-> 0, pt |-> 0], limit |-> 0]
NoOutput == [ok |-> TRUE, asked |-> {}, list |-> <<>>]

DedupIdle ==
  /\ ddResults = <<>>
  /\ ddLimit = 0
  /\ ddOut = <<>>
  /\ ddPc = "idle"

HybridIdle ==
  /\ hsReader = <<>>
  /\ hsRows = <<>>
  /\ hsCall = NoSearch
  /\ hsOut = NoOutput

\* No call has been made on the Vector Store directly.
NoVecCall == [op |-> "none", id |-> 0, got |-> NoPaper]

\* search_local has not been called.
NoResolve == [ok |-> TRUE, failed |-> FALSE, papers |-> <<>>]

\* What a lookup can answer: Ok(Some(paper)), Ok(None), Err(e).
LookupAnswers == {"some", "none", "err"}

GetPaperIdle ==
  /\ gpParams = [source |-> None, prefix |-> ""]
  /\ gpLocal = "none"
  /\ gpAnswers = [i \in Providers |-> "none"]
  /\ gpPc = "idle"
  /\ gpAt = 1
  /\ gpAsked = <<>>
  /\ gpResult = [kind |-> "none", from |-> 0]

\* Two tool invocations run at a time.
Threads == {1, 2}

ServerIdle ==
  /\ mutex = 0
  /\ thPc = [t \in Threads |-> "idle"]
  /\ thTool = [t \in Threads |-> "none"]
  /\ thTodo = [t \in Threads |-> <<>>]
  /\ thSaw = [t \in Threads |-> FALSE]

ToolsIdle ==
  /\ vsLast = NoVecCall
  /\ slPapers = NoResolve
  /\ GetPaperIdle
  /\ ServerIdle

Init ==
  /\ InitFt
  /\ InitIx
  /\ FedIdle
  /\ ToolsIdle
  /\ DedupIdle
  /\ HybridIdle
  /\ source_filter = None
  /\ max_results = 0
  /\ responses = [i \in Providers |-> Ok(<<>>)]

InitFed ==
  /\ InitFt
  /\ InitIx
  /\ FedIdle
  /\ ToolsIdle
  /\ DedupIdle
  /\ HybridIdle
  /\ source_filter \in Filters
  /\ max_results \in 1..MaxCap
  /\ responses \in [Providers -> Answers]

\* --------------------------------------- FulltextIndex driven directly

\* The calls staged since the last successful commit(): each stages one
\* delete_term.
StagedCalls == Cardinality({i \in 1..Len(ftPending) : ftPending[i].op = "delete_term"})

\* FulltextIndex::add_paper(id, title, ..)
FtAddPaperCall(id, title, ok) ==
  /\ StagedCalls < MaxStaged
  /\ ftStaged' = FtAddPaper(ftStaged, id, title, ok)
  /\ ftPending' = FtAddPaper(ftPending, id, title, ok)
  /\ ftLast' = [op |-> "add_paper", ok |-> ok, batch |-> <<>>]
  /\ UNCHANGED <<fnVars, fedVars, ftCommitted, ftReader, ixVars>>

\* FulltextIndex::delete(id)
FtDeleteCall(id) ==
  /\ StagedCalls < MaxStaged
  /\ ftStaged' = FtDelete(ftStaged, id)
  /\ ftPending' = FtDelete(ftPending, id)
  /\ ftLast' = [op |-> "delete", ok |-> TRUE, batch |-> <<>>]
  /\ UNCHANGED <<fnVars, fedVars, ftCommitted, ftReader, ixVars>>

\* FulltextIndex::commit()
FtCommitCall(outcome) ==
  /\ ftCommitted' = FtWriterCommit(ftCommitted, ftStaged, outcome)
  /\ ftStaged' = FtStagedAfterCommit(ftStaged, outcome)
  /\ ftReader' = FtReaderAfterCommit(ftReader, ftCommitted, ftStaged, outcome)
  /\ ftPending' = IF outcome = "ok" THEN <<>> ELSE ftPending
  /\ ftLast' = [op |-> "commit", ok |-> outcome = "ok",
                batch |-> IF outcome = "ok" THEN ftPending ELSE <<>>]
  /\ UNCHANGED <<fnVars, fedVars, ixVars>>

NextFulltext ==
  \/ \E id \in Ids, title \in Titles, ok \in BOOLEAN : FtAddPaperCall(id, title, ok)
  \/ \E id \in Ids : FtDeleteCall(id)
  \/ \E outcome \in CommitOutcomes : FtCommitCall(outcome)

SpecFulltext == Init /\ [][NextFulltext]_vars

\* ------------------------------------------------------------- LocalIndex

\* Mutant of IndexPaperAfter: the error of a statement is dropped and the
\* method goes on.
IndexPaperAfter_DropsError(at, ok) ==
  CASE at = "ip_stage" -> "ip_vec"
    [] at = "ip_vec" -> "ip_commit"
    [] OTHER -> "idle"

\* Where `?` sends index_paper after a statement: on to the next statement,
\* or out of the method with the error.
IndexPaperAfter(at, ok) ==
  CASE ~ok -> "idle"
    [] at = "ip_stage" -> "ip_vec"
    [] at = "ip_vec" -> "ip_commit"
    [] OTHER -> "idle"

\* Where `?` sends delete after a statement.
DeleteAfter(at, ok) ==
  CASE ~ok -> "idle"
    [] at = "del_stage" -> "del_commit"
    [] at = "del_commit" -> "del_vec"
    [] OTHER -> "idle"

Returns(next, ok) ==
  IF next /= "idle" THEN "pending" ELSE IF ok THEN "ok" ELSE "err"

\* A call enters the orchestrator (&mut self: one call at a time).
BeginIndexPaper(paper, emb) ==
  /\ pc = "idle"
  /\ nCalls < MaxCalls
  /\ pc' = "ip_stage"
  /\ call' = [op |-> "index_paper", paper |-> paper, emb |-> emb]
  /\ steps' = <<>>
  /\ rows0' = rows
  /\ result' = "pending"
  /\ nCalls' = nCalls + 1
  /\ deleted' = deleted \ {paper.id}
  /\ interrupted' = 0
  /\ UNCHANGED <<fnVars, fedVars, ftVars, rows, vecWriteFailed, otherFailure>>

\* self.fulltext.add_paper(..)?
IndexPaperStage(ok) ==
  /\ pc = "ip_stage"
  /\ ftStaged' = FtAddPaper(ftStaged, call.paper.id, call.paper.title, ok)
  /\ steps' = Append(steps, [stmt |-> "stage", ok |-> ok])
  /\ pc' = IndexPaperAfter("ip_stage", ok)
  /\ result' = Returns(pc', ok)
  /\ otherFailure' = (otherFailure \/ ~ok)
  /\ UNCHANGED <<fnVars, fedVars, ftCommitted, ftReader, ftPending, ftLast, rows, call, rows0,
                 nCalls, deleted, vecWriteFailed, interrupted>>

\* self.vector.add_paper(paper, embedding).await?
IndexPaperVector(ok) ==
  /\ pc = "ip_vec"
  /\ ok => VecAddCanSucceed(call.emb)
  /\ rows' = IF ok THEN VecAddPaper(rows, call.paper, call.emb) ELSE rows
  /\ steps' = Append(steps, [stmt |-> "vector", ok |-> ok])
  /\ pc' = IndexPaperAfter("ip_vec", ok)
  /\ result' = Returns(pc', ok)
  /\ vecWriteFailed' = (vecWriteFailed \/ ~ok)
  /\ UNCHANGED <<fnVars, fedVars, ftVars, call, rows0, nCalls, deleted, otherFailure, interrupted>>

\* self.fulltext.commit()?
IndexPaperCommit(outcome) ==
  /\ pc = "ip_commit"
  /\ ftCommitted' = FtWriterCommit(ftCommitted, ftStaged, outcome)
  /\ ftStaged' = FtStagedAfterCommit(ftStaged, outcome)
  /\ ftReader' = FtReaderAfterCommit(ftReader, ftCommitted, ftStaged, outcome)
  /\ steps' = Append(steps, [stmt |-> "commit", ok |-> outcome = "ok"])
  /\ pc' = IndexPaperAfter("ip_commit", outcome = "ok")
  /\ result' = Returns(pc', outcome = "ok")
  /\ otherFailure' = (otherFailure \/ outcome /= "ok")
  /\ UNCHANGED <<fnVars, fedVars, ftPending, ftLast, rows, call, rows0, nCalls, deleted,
                 vecWriteFailed, interrupted>>

\* self.vector.add_paper(paper, embedding) with an embedding of another length
\* than the column's: add_paper does not compare the lengths, and
\* FixedSizeListArray::from_iter_primitive hands back the array, not a Result,
\* so the fixed-size builder's length assertion unwinds out of index_paper.
\* Nothing is written; what the call staged stays in the writer.
IndexPaperVectorPanics ==
  /\ pc = "ip_vec"
  /\ ~VecAddCanSucceed(call.emb)
  /\ pc' = "idle"
  /\ result' = "panicked"
  /\ vecWriteFailed' = TRUE
  /\ UNCHANGED <<fnVars, fedVars, ftVars, rows, call, steps, rows0, nCalls, deleted,
                 otherFailure, interrupted>>

BeginDelete(id) ==
  /\ pc = "idle"
  /\ nCalls < MaxCalls
  /\ pc' = "del_stage"
  /\ call' = [op |-> "delete", paper |-> [id |-> id, title |-> 0],
              emb |-> [len |-> 0, pt |-> 0]]
  /\ steps' = <<>>
  /\ rows0' = rows
  /\ result' = "pending"
  /\ nCalls' = nCalls + 1
  /\ interrupted' = 0
  /\ UNCHANGED <<fnVars, fedVars, ftVars, rows, deleted, vecWriteFailed, otherFailure>>

\* self.fulltext.delete(id)?  (it always returns Ok)
DeleteStage ==
  /\ pc = "del_stage"
  /\ ftStaged' = FtDelete(ftStaged, call.paper.id)
  /\ steps' = Append(steps, [stmt |-> "stage", ok |-> TRUE])
  /\ pc' = DeleteAfter("del_stage", TRUE)
  /\ UNCHANGED <<fnVars, fedVars, ftCommitted, ftReader, ftPending, ftLast, rows, call, rows0,
                 result, nCalls, deleted, vecWriteFailed, otherFailure, interrupted>>

\* self.fulltext.commit()?
DeleteCommit(outcome) ==
  /\ pc = "del_commit"
  /\ ftCommitted' = FtWriterCommit(ftCommitted, ftStaged, outcome)
  /\ ftStaged' = FtStagedAfterCommit(ftStaged, outcome)
  /\ ftReader' = FtReaderAfterCommit(ftReader, ftCommitted, ftStaged, outcome)
  /\ steps' = Append(steps, [stmt |-> "commit", ok |-> outcome = "ok"])
  /\ pc' = DeleteAfter("del_commit", outcome = "ok")
  /\ result' = Returns(pc', outcome = "ok")
  /\ otherFailure' = (otherFailure \/ outcome /= "ok")
  /\ UNCHANGED <<fnVars, fedVars, ftPending, ftLast, rows, call, rows0, nCalls, deleted,
                 vecWriteFailed, interrupted>>

\* self.vector.delete(id).await?
DeleteVector(ok) ==
  /\ pc = "del_vec"
  /\ rows' = IF ok THEN VecDelete(rows, call.paper.id) ELSE rows
  /\ steps' = Append(steps, [stmt |-> "vector", ok |-> ok])
  /\ pc' = DeleteAfter("del_vec", ok)
  /\ result' = Returns(pc', ok)
  /\ deleted' = IF ok THEN deleted \cup {call.paper.id} ELSE deleted
  /\ otherFailure' = (otherFailure \/ ~ok)
  /\ interrupted' = IF ok THEN 0 ELSE call.paper.id
  /\ UNCHANGED <<fnVars, fedVars, ftVars, call, rows0, nCalls, vecWriteFailed>>

\* The process dies inside a call and is started again: create_or_open opens
\* both stores as they are on disk; what the writer had staged is gone and the
\* new reader serves the last published commit.
Crash ==
  /\ pc /= "idle"
  /\ ftStaged' = <<>>
  /\ ftReader' = ftCommitted
  /\ pc' = "idle"
  /\ result' = "crashed"
  /\ otherFailure' = TRUE
  /\ interrupted' = IF pc = "del_vec" THEN call.paper.id ELSE 0
  /\ UNCHANGED <<fnVars, fedVars, ftCommitted, ftPending, ftLast, rows, call, steps, rows0,
                 nCalls, deleted, vecWriteFailed>>

NextIndex ==
  \/ \E paper \in Papers : \E emb \in Embeddings(paper) : BeginIndexPaper(paper, emb)
  \/ \E ok \in BOOLEAN : IndexPaperStage(ok)
  \/ \E ok \in BOOLEAN : IndexPaperVector(ok)
  \/ IndexPaperVectorPanics
  \/ \E outcome \in CommitOutcomes : IndexPaperCommit(outcome)
  \/ \E id \in Ids : BeginDelete(id)
  \/ DeleteStage
  \/ \E outcome \in CommitOutcomes : DeleteCommit(outcome)
  \/ \E ok \in BOOLEAN : DeleteVector(ok)
  \/ Crash

SpecIndex == Init /\ [][NextIndex]_vars

\* ------------------------------------------------------- claims: LocalIndex

RowsOf(rs, id) == {i \in 1..Len(rs) : rs[i].id = id}
NoFailureBut(vecFailures) == ~otherFailure /\ (vecFailures \/ ~vecWriteFailed)

\* C1: when the Vector Store write of index_paper fails, the staged lexical
\* entry never becomes visible: whatever calls follow, the ids the Lexical
\* Index serves are the ids that have a row in the Vector Store (no step
\* other than such a write having failed).
C1_FailedWriteStaysInvisible ==
  (pc = "idle" /\ vecWriteFailed /\ NoFailureBut(TRUE))
    => SeqIds(ftReader) = SeqIds(rows)

\* C2: index_paper runs stage, Vector Store write, commit, in that order; no
\* statement runs after one that returned an error, the error is returned,
\* and a call failing before the commit leaves the Vector Store as it was.
IndexPaperOrder == <<"stage", "vector", "commit">>
C2_IndexPaperOrder ==
  call.op = "index_paper" =>
    /\ Len(steps) <= Len(IndexPaperOrder)
    /\ \A i \in 1..Len(steps) : steps[i].stmt = IndexPaperOrder[i]
    /\ \A i \in 1..Len(steps) - 1 : steps[i].ok
    /\ result = "ok" <=> (Len(steps) = 3 /\ steps[3].ok /\ pc = "idle")
    /\ (Len(steps) > 0 /\ ~steps[Len(steps)].ok) =>
         /\ pc = "idle"
         /\ result = "err"
         /\ steps[Len(steps)].stmt /= "commit" => rows = rows0

C2_Witness ==
  /\ call.op = "index_paper"
  /\ Len(steps) = 2
  /\ ~steps[2].ok
  /\ result = "err"
  /\ ftStaged /= <<>>

\* C3: after any sequence of index_paper and delete calls, none of which
\* failed, the Vector Store holds at most one row per id and count() is the
\* number of distinct ids indexed.
C3_OneRowPerId ==
  (pc = "idle" /\ NoFailureBut(FALSE)) =>
    /\ \A id \in Ids : Cardinality(RowsOf(rows, id)) <= 1
    /\ VecCount(rows) = Cardinality(SeqIds(rows))

\* C4: once delete(id) has returned Ok, and until index_paper is called for
\* id again, no search in any mode returns id and get_paper(id) is none,
\* however many rows id had.
C4_DeletedNotReturned ==
  deleted /= {} =>
    /\ \A id \in deleted : VecGetPaper(rows, id) = NoPaper
    /\ \A mode \in Modes, limit \in Limits :
         deleted \cap Returned(ftReader, rows, mode, limit) = {}

C4_Witness ==
  /\ call.op = "delete"
  /\ result = "ok"
  /\ call.paper.id \in deleted
  /\ Cardinality(RowsOf(rows0, call.paper.id)) >= 2

\* C5: a successful delete(id) lowers count() by exactly one when id was
\* indexed, and leaves it unchanged when it was not.
C5_DeleteLowersCountByOne ==
  (pc = "idle" /\ call.op = "delete" /\ result = "ok") =>
    VecCount(rows) =
      VecCount(rows0) - (IF call.paper.id \in SeqIds(rows0) THEN 1 ELSE 0)

\* C6: a delete(id) that stops after the lexical commit and before the
\* Vector Store delete (a crash, or the Vector Store returning an error) leaves
\* id absent from search in every mode.
C6_InterruptedDeleteAbsent ==
  interrupted /= 0 =>
    \A mode \in Modes, limit \in Limits :
      interrupted \notin Returned(ftReader, rows, mode, limit)

\* C21: an index_paper call given an embedding of another length than D, once
\* it has reached the Vector Store write, has returned an error, has appended
\* no row and has not committed the Lexical Index.
C21_MismatchRejectedWithError ==
  (/\ call.op = "index_paper"
   /\ call.emb.len /= EMBEDDING_DIMENSION
   /\ pc = "idle"
   /\ result /= "crashed"
   /\ Len(steps) >= 1
   /\ steps[1].ok)
    => /\ result = "err"
       /\ rows = rows0
       /\ \A i \in 1..Len(steps) : steps[i].stmt /= "commit"

\* ---------------------------------------------------- claims: FulltextIndex

AddsOf(ops, id) == {i \in 1..Len(ops) : ops[i].op = "add_document" /\ ops[i].id = id}

\* C7: the Lexical Index serves exactly one entry per distinct id: count() is
\* the number of distinct ids and no search returns an id twice, however
\* often the id was added before or after a commit.
C7_OneEntryPerId ==
  /\ \A id \in Ids : Cardinality(RowsOf(ftReader, id)) <= 1
  /\ FtCount(ftReader) = Cardinality(SeqIds(ftReader))
  /\ \A query \in Queries, limit \in Limits :
       LET hits == FtSearch(ftReader, query, limit).hits
       IN \A i, j \in 1..Len(hits) : i /= j => hits[i].id /= hits[j].id

C7_Witness ==
  /\ ftLast.op = "commit"
  /\ ftLast.ok
  /\ \E id \in SeqIds(ftReader) : Cardinality(AddsOf(ftLast.batch, id)) >= 2
  /\ Len(ftReader) = NumIds

NextHandle_CompletionOrder(active, ended, k) ==
  IF k <= Len(ended) THEN ended[k] ELSE 0

\* `for handle in futures`: the k-th handle awaited is the k-th active provider's.
NextHandle(active, ended, k) == active[k]

\* Mutant of Collected: an error ends the loop.
Collected_StopsAtError(all, answer) ==
  IF answer.kind = "ok"
    THEN [all |-> all \o answer.records, goOn |-> TRUE]
    ELSE [all |-> all, goOn |-> FALSE]

\* The match on handle.await: Ok(Ok(results)) extends all_results, both
\* error arms log a warning; the loop goes on in each.
Collected(all, answer) ==
  [all |-> IF answer.kind = "ok" THEN all \o answer.records ELSE all, goOn |-> TRUE]

\* federated_search up to its first await: filter, early return when no
\* provider is active, spawn one task per active provider.
FedStart(r) ==
  /\ fedPc[r] = "idle"
  /\ \A q \in Runs : q < r => fedPc[q] = "done"
  /\ LET active == active_sources(source_filter)
     IN IF active = <<>>
          THEN /\ fedPc' = [fedPc EXCEPT ![r] = "done"]
               /\ returned' = [returned EXCEPT ![r] = <<>>]
               /\ UNCHANGED <<tasks, spawned, handle, quota>>
          ELSE /\ fedPc' = [fedPc EXCEPT ![r] = "awaiting"]
               /\ tasks' = [tasks EXCEPT ![r] =
                              [i \in Providers |->
                                 IF \E k \in 1..Len(active) : active[k] = i
                                   THEN "running" ELSE "none"]]
               /\ spawned' = [spawned EXCEPT ![r] = active]
               /\ quota' = [quota EXCEPT ![r] =
                              [i \in Providers |->
                                 IF \E k \in 1..Len(active) : active[k] = i
                                   THEN per_source(max_results, Len(active)) ELSE 0]]
               /\ handle' = [handle EXCEPT ![r] = 1]
               /\ UNCHANGED returned
  /\ UNCHANGED <<fnVars, ftVars, ixVars, source_filter, max_results, responses, finished,
                 all_results>>

\* A spawned task ends: source.search(&query, per_source) returned, or panicked.
\* The task of a provider whose search never returns never ends.
TaskEnds(r, i) ==
  /\ tasks[r][i] = "running"
  /\ responses[i].kind /= "hang"
  /\ tasks' = [tasks EXCEPT ![r][i] = "ended"]
  /\ finished' = [finished EXCEPT ![r] = Append(@, i)]
  /\ UNCHANGED <<fnVars, ftVars, ixVars, source_filter, max_results, responses, fedPc,
                 spawned, handle, all_results, returned, quota>>

\* handle.await completes for the handle the loop is at; after the last
\* handle the collected records are deduplicated, ranked and returned.
HandleAwaited(r) ==
  /\ fedPc[r] = "awaiting"
  /\ LET active == active_sources(source_filter)
         i == NextHandle(active, finished[r], handle[r])
     IN /\ i \in Providers
        /\ tasks[r][i] = "ended"
        /\ LET got == Collected(all_results[r], responses[i])
               last == handle[r] = Len(active) \/ ~got.goOn
           IN /\ all_results' = [all_results EXCEPT ![r] = got.all]
              /\ handle' = [handle EXCEPT ![r] = @ + 1]
              /\ fedPc' = [fedPc EXCEPT ![r] = IF last THEN "done" ELSE "awaiting"]
              /\ returned' = [returned EXCEPT ![r] =
                                IF last THEN deduplicate_and_rank(got.all, max_results)
                                ELSE @]
  /\ UNCHANGED <<fnVars, ftVars, ixVars, source_filter, max_results, responses, tasks,
                 finished, spawned, quota>>

NextFed ==
  \/ \E r \in Runs : FedStart(r)
  \/ \E r \in Runs, i \in Providers : TaskEnds(r, i)
  \/ \E r \in Runs : HandleAwaited(r)

SpecFed == InitFed /\ [][NextFed]_vars

\* federated_search where a provider's search may never return. The runtime
\* runs every spawned task and the awaiting caller: a task whose search
\* returns ends, and an await on an ended task completes.
Hang == [kind |-> "hang", records |-> <<>>]
StallAnswers == {Ok(<<PB1, PA2>>), Ok(<<PX2, PX1>>), [kind |-> "err", records |-> <<>>], Hang}

InitFedStall ==
  /\ InitFt
  /\ InitIx
  /\ FedIdle
  /\ ToolsIdle
  /\ DedupIdle
  /\ HybridIdle
  /\ source_filter \in Filters
  /\ max_results \in 1..MaxCap
  /\ responses \in [Providers -> StallAnswers]

SpecFedStall ==
  /\ InitFedStall
  /\ [][NextFed]_vars
  /\ \A r \in Runs : WF_vars(FedStart(r)) /\ WF_vars(HandleAwaited(r))
  /\ \A r \in Runs, i \in Providers : WF_vars(TaskEnds(r, i))

\* ------------------------------------------------- claims: federated_search

ActiveSet ==
  LET active == active_sources(source_filter)
  IN {active[k] : k \in 1..Len(active)}

\* The records of the providers that succeeded, in the order of `sources`.
RECURSIVE SucceededFrom(_)
SucceededFrom(i) ==
  IF i > Len(sources) THEN <<>>
  ELSE (IF i \in ActiveSet /\ responses[i].kind = "ok" THEN responses[i].records ELSE <<>>)
       \o SucceededFrom(i + 1)

\* C9: a provider that returns an error, or whose task panics, contributes
\* nothing and ends nothing: what federated_search returns is
\* deduplicate_and_rank of the records of the providers that succeeded.
C9_FailedProviderContributesNothing ==
  LET expected == deduplicate_and_rank(SucceededFrom(1), max_results)
  IN \A r \in Runs :
       fedPc[r] = "done" =>
         /\ returned[r] = expected
         /\ \A i \in ActiveSet : tasks[r][i] = "ended"

C9_Witness ==
  /\ fedPc[1] = "done"
  /\ \E i, j, k \in ActiveSet :
       /\ i < j /\ j < k
       /\ responses[i].kind = "err"
       /\ responses[j].kind = "panic"
       /\ responses[k].kind = "ok"
       /\ responses[k].records /= <<>>
  /\ returned[1] /= <<>>

\* C10: two invocations with the same providers, arguments and answers return
\* the same list in the same order, in whatever order their tasks end.
C10_SameResultUnderEveryInterleaving ==
  (fedPc[1] = "done" /\ fedPc[2] = "done") => returned[1] = returned[2]

C10_Witness ==
  /\ fedPc[1] = "done"
  /\ fedPc[2] = "done"
  /\ Len(finished[1]) = Len(sources)
  /\ finished[1] /= finished[2]
  /\ Len(returned[1]) >= 2
  /\ \E i, j \in Providers :
       /\ i /= j
       /\ responses[i].kind = "ok" /\ responses[j].kind = "ok"
       /\ deduplicate_and_rank(responses[i].records \o responses[j].records, max_results)
            /= deduplicate_and_rank(responses[j].records \o responses[i].records, max_results)

\* C11: a provider whose search never returns stalls only its own
\* contribution: with one such provider among the active ones, once the task
\* of every other active provider has ended, federated_search has returned
\* the merged records of the providers that succeeded, or is able to go on
\* towards returning them.
C11_StalledProviderStallsOnlyItself ==
  \A r \in Runs :
    (/\ fedPc[r] /= "idle"
     /\ Cardinality({i \in ActiveSet : responses[i].kind = "hang"}) = 1
     /\ \E i \in ActiveSet : responses[i].kind = "ok"
     /\ \A i \in ActiveSet : responses[i].kind /= "hang" => tasks[r][i] = "ended")
      => \/ /\ fedPc[r] = "done"
            /\ returned[r] = deduplicate_and_rank(SucceededFrom(1), max_results)
         \/ ENABLED HandleAwaited(r)

\* ------------------------------------------- deduplicate_and_rank on its own

\* The records the input lists are drawn from: three without a DOI whose
\* normalized titles are 4 edits apart in a chain (DupX - DupA - DupB, the ends
\* 8 apart), one far from all of them, and two sharing a DOI up to case, one
\* of them under the title of DupX.
DupX == FedPaper("doaj:7", <<"a", "a", "a", "a", "a", "a", "a", "a">>, None, Some(9), Some(5))
DupA == FedPaper("arxiv:7", <<"A", "A", "A", "A", "-", "b", "b", "b", "b">>, None, Some(2), Some(3))
DupB == FedPaper("ads:7", <<"b", "b", "b", "b", "b", "b", "b", "b">>, None, None, Some(1))
FarC == FedPaper("doaj:9", <<"c", "c", "c", "c", " ", "c", "c", "c", "c">>, None, Some(9), Some(7))
DoiP == FedPaper("arxiv:8", <<"a", "a", "a", "a", "a", "a", "a", "a">>, Some(<<"1", "0", "/", "A", "b">>), None, None)
DoiQ == FedPaper("ads:8", <<"Q", "q", "q", "q", ":", " ", "q", "q", "q", "q">>, Some(<<"1", "0", "/", "a", "B">>), Some(4), Some(2))
Catalogue == {DupX, DupA, DupB, FarC, DoiP, DoiQ}

InputLists == UNION {[1..n -> Catalogue] : n \in 0..MaxInput}

InitDedup ==
  /\ InitFt
  /\ InitIx
  /\ FedIdle
  /\ ToolsIdle
  /\ HybridIdle
  /\ source_filter = None
  /\ max_results = 0
  /\ responses = [i \in Providers |-> Ok(<<>>)]
  /\ ddResults \in InputLists
  /\ ddLimit \in 0..MaxInput
  /\ ddOut = <<>>
  /\ ddPc = "ready"

\* deduplicate_and_rank(results, limit) is called and returns.
DedupCall ==
  /\ ddPc = "ready"
  /\ ddOut' = deduplicate_and_rank(ddResults, ddLimit)
  /\ ddPc' = "returned"
  /\ UNCHANGED <<ftVars, ixVars, fedVars, toolVars, ddResults, ddLimit, hsReader, hsRows,
                 hsCall, hsOut>>

NextDedup == DedupCall

SpecDedup == InitDedup /\ [][NextDedup]_vars

\* ----------------------------------------------- claims: deduplicate_and_rank

LowerDoi(p) == ToLowercase(p.doi[1])
SameDoi(p, q) == IsSome(p.doi) /\ IsSome(q.doi) /\ LowerDoi(p) = LowerDoi(q)
InList(list, p) == \E i \in 1..Len(list) : list[i] = p
TitleDistance(p, q) == levenshtein(normalize_title(p.title), normalize_title(q.title))

\* C12: the output holds at most one record per lowercased DOI; a record of
\* the output is of maximal metadata-richness score among the input records
\* sharing its lowercased DOI; and a DOI of the input is lost only to the limit.
C12_OneSurvivorPerDoi ==
  ddPc = "returned" =>
    /\ \A i, j \in 1..Len(ddOut) : i /= j => ~SameDoi(ddOut[i], ddOut[j])
    /\ \A i \in 1..Len(ddOut), j \in 1..Len(ddResults) :
         SameDoi(ddOut[i], ddResults[j])
           => metadata_score(ddOut[i]) >= metadata_score(ddResults[j])
    /\ ddLimit >= Len(ddResults) =>
         \A j \in 1..Len(ddResults) :
           IsSome(ddResults[j].doi) => \E i \in 1..Len(ddOut) : SameDoi(ddOut[i], ddResults[j])

C12_Witness ==
  /\ ddPc = "returned"
  /\ Len(ddResults) = MaxInput
  /\ ddResults[1] = DoiP
  /\ ddResults[MaxInput] = DoiQ
  /\ InList(ddOut, DoiQ)
  /\ ~InList(ddOut, DoiP)
  /\ Len(ddOut) >= 2

Occurrences(list, p) == Cardinality({i \in 1..Len(list) : list[i] = p})

\* C13: of two input records that both lack a DOI and whose normalized
\* titles are fewer than 5 edits apart, at most one is kept, and the one of
\* strictly lower metadata-richness score is not the one kept.
C13_CloseTitlesKeepTheRicher ==
  ddPc = "returned" =>
    \A i, j \in 1..Len(ddResults) :
      (/\ i /= j
       /\ ~IsSome(ddResults[i].doi)
       /\ ~IsSome(ddResults[j].doi)
       /\ TitleDistance(ddResults[i], ddResults[j]) < TitleDistanceLimit)
        => /\ ddResults[i] /= ddResults[j] =>
                Occurrences(ddOut, ddResults[i]) + Occurrences(ddOut, ddResults[j]) <= 1
           /\ ddResults[i] = ddResults[j] => Occurrences(ddOut, ddResults[i]) <= 1
           /\ metadata_score(ddResults[i]) < metadata_score(ddResults[j])
                => ~InList(ddOut, ddResults[i])

\* The deduplicated set before it is ranked and truncated.
Deduplicated(list) == DedupWalk(SortByRichness(list), {}, <<>>)
RanksAbove(p, q) == KeyLess(RankKey(p), RankKey(q))
IsPermutation(a, b) ==
  /\ Len(a) = Len(b)
  /\ \A i \in 1..Len(a) : Occurrences(a, a[i]) = Occurrences(b, a[i])

\* What C14 says of the order and the truncation: at most limit records, all
\* of the deduplicated set and as many as the limit allows, no record ranked
\* above the one before it, and none left out that ranks above one returned.
RankedPrefix ==
  LET kept == Deduplicated(ddResults)
  IN /\ Len(ddOut) <= ddLimit
     /\ \A i \in 1..Len(ddOut) : InList(kept, ddOut[i])
     /\ Len(ddOut) = Len(kept) \/ Len(ddOut) = ddLimit
     /\ \A i \in 1..Len(ddOut) - 1 : ~RanksAbove(ddOut[i + 1], ddOut[i])
     /\ \A i \in 1..Len(kept), j \in 1..Len(ddOut) :
          ~InList(ddOut, kept[i]) => ~RanksAbove(kept[i], ddOut[j])

NoDois == \A i \in 1..Len(ddResults) : ~IsSome(ddResults[i].doi)

\* C14 as stated: the ranked prefix, and records with pairwise distinct
\* titles and no DOI are all retained when the limit allows.
C14_RankedAndDistinctTitlesRetained ==
  ddPc = "returned" =>
    /\ RankedPrefix
    /\ (/\ NoDois
        /\ \A i, j \in 1..Len(ddResults) :
             i /= j => ddResults[i].title /= ddResults[j].title
        /\ Len(ddResults) <= ddLimit)
         => IsPermutation(ddOut, ddResults)

\* C14, amended: the ranked prefix, and records with no DOI whose normalized
\* titles are pairwise at least 5 edits apart are all retained when the limit
\* allows.
C14_RankedAndFarTitlesRetained ==
  ddPc = "returned" =>
    /\ RankedPrefix
    /\ (/\ NoDois
        /\ \A i, j \in 1..Len(ddResults) :
             i /= j => TitleDistance(ddResults[i], ddResults[j]) >= TitleDistanceLimit
        /\ Len(ddResults) <= ddLimit)
         => IsPermutation(ddOut, ddResults)

C14_Witness ==
  /\ ddPc = "returned"
  /\ ddResults = <<DupB, DupX, FarC>>
  /\ ddLimit = MaxInput
  /\ ddOut = <<FarC, DupX, DupB>>

\* ------------------------------------- claims: federated_search, dispatch

\* The provider's name is an entry of the filter up to the case of its
\* letters, or there is no filter.
Requested(i) ==
  ~IsSome(source_filter)
    \/ \E k \in 1..Len(source_filter[1]) :
         ToLowercase(source_filter[1][k]) = ToLowercase(sources[i])

\* C15: a started federated_search has spawned exactly one search for each
\* requested provider and none for any other; when no provider is requested
\* it has returned the empty list with no search spawned; and when no
\* provider returned a record it returns the empty list.
C15_DispatchFollowsFilter ==
  LET requested == {i \in Providers : Requested(i)}
  IN \A r \in Runs :
       fedPc[r] /= "idle" =>
         /\ \A i \in Providers :
              Occurrences(spawned[r], i) = IF i \in requested THEN 1 ELSE 0
         /\ \A i \in Providers : tasks[r][i] /= "none" <=> i \in requested
         /\ requested = {} =>
              /\ fedPc[r] = "done"
              /\ returned[r] = <<>>
              /\ finished[r] = <<>>
         /\ (/\ fedPc[r] = "done"
             /\ \A i \in requested :
                  responses[i].kind /= "ok" \/ responses[i].records = <<>>)
              => returned[r] = <<>>

C15_Witness ==
  /\ fedPc[1] = "done"
  /\ IsSome(source_filter)
  /\ Len(source_filter[1]) = 3
  /\ spawned[1] = <<2, 3>>
  /\ tasks[1][1] = "none"
  /\ returned[1] /= <<>>

\* ------------------------------------------------- hybrid_search on its own

\* What the stores can hold: the Lexical Index serves one entry per id, the
\* Vector Store any rows, an id more than once included; a row's vector is
\* the embedding of its text.
RECURSIVE DistinctIds(_)
DistinctIds(s) ==
  Len(s) <= 1 \/ (s[Len(s)].id \notin SeqIds(SubSeq(s, 1, Len(s) - 1))
                    /\ DistinctIds(SubSeq(s, 1, Len(s) - 1)))

\* The papers the stores are filled from: one per id, the titles shared out
\* among the ids.
IndexedPapers == {[id |-> i, title |-> ((i - 1) % NumTitles) + 1] : i \in Ids}

ReaderStates ==
  {s \in UNION {[1..n -> IndexedPapers] : n \in 0..NumIds} : DistinctIds(s)}
StoredRows == {[id |-> paper.id, title |-> paper.title, pt |-> mock_embedding(paper.title).pt] :
                 paper \in IndexedPapers}
RowStates == UNION {[1..n -> StoredRows] : n \in 0..MaxRows}

InitHybrid ==
  /\ InitFt
  /\ InitIx
  /\ FedIdle
  /\ ToolsIdle
  /\ DedupIdle
  /\ source_filter = None
  /\ max_results = 0
  /\ responses = [i \in Providers |-> Ok(<<>>)]
  /\ hsReader \in ReaderStates
  /\ hsRows \in RowStates
  /\ hsCall = NoSearch
  /\ hsOut = NoOutput

\* hybrid_search(&fulltext, &vector, mode, limit) is called and returns one of
\* the lists it can return, or the error; it holds both stores by shared
\* reference.
HybridSearchCall(mode, limit) ==
  LET res == HybridSearch(hsReader, hsRows, mode, limit)
  IN /\ hsCall = NoSearch
     /\ hsCall' = [kind |-> mode.kind, query |-> mode.query, emb |-> mode.emb,
                    limit |-> limit]
     /\ IF res.ok
          THEN \E out \in res.outs : hsOut' = [ok |-> TRUE, asked |-> res.asked, list |-> out]
          ELSE hsOut' = [ok |-> FALSE, asked |-> res.asked, list |-> <<>>]
     /\ UNCHANGED <<ftVars, ixVars, fedVars, toolVars, ddResults, ddLimit, ddOut, ddPc,
                    hsReader, hsRows>>

NextHybrid == \E mode \in Modes, limit \in Limits : HybridSearchCall(mode, limit)

SpecHybrid == InitHybrid /\ [][NextHybrid]_vars

\* ------------------------------------------------------ claims: rank fusion

HybridModes == {mode \in Modes : mode.kind = "hybrid"}

\* 1/(60 + r + 1) for the zero-based rank r of the id in the list, nothing
\* for a list without the id.
Contribution(hits, id) ==
  LET at == {i \in 1..Len(hits) : hits[i].id = id}
  IN IF at = {} THEN 0
     ELSE RrfUnit \div (60 + (CHOOSE i \in at : \A k \in at : i <= k) - 1 + 1)

\* C16: whatever successful index_paper and delete calls produced the stores,
\* the fused score of every result of a hybrid search is the sum of the
\* contribution of its rank in the lexical hit list and of its rank in the
\* vector hit list, so never more than two contributions of rank 0.
C16_FusedScoreIsSumOfTwo ==
  (pc = "idle" /\ NoFailureBut(FALSE)) =>
    \A mode \in HybridModes, limit \in Limits :
      LET bm25 == FtSearch(ftReader, mode.query, 3 * limit)
          vec == VecSearchSimilar(rows, mode.emb, 3 * limit)
      IN bm25.ok =>
           \A out \in HybridSearch(ftReader, rows, mode, limit).outs :
             \A i \in 1..Len(out) :
               /\ out[i].rrf_score
                    = Contribution(bm25.hits, out[i].id) + Contribution(vec, out[i].id)
               /\ out[i].rrf_score <= 2 * (RrfUnit \div 61)

\* The hit lists of the two stores for the call made, as the engine fetches them.
CallLexicalHits == FtSearch(hsReader, hsCall.query, 3 * hsCall.limit).hits
CallVectorHits == VecSearchSimilar(hsRows, hsCall.emb, 3 * hsCall.limit)
HybridReturned == hsCall.kind = "hybrid" /\ hsOut.ok

\* The list with the hit at position i moved one place earlier.
MovedEarlier(hits, i) ==
  [k \in 1..Len(hits) |-> IF k = i - 1 THEN hits[i] ELSE IF k = i THEN hits[i - 1] ELSE hits[k]]

\* C17: for the hit lists of a hybrid search, moving an item one place
\* earlier in either list, the other list as it is, never lowers its fused
\* score, and an item's fused score is never below what either list alone
\* gives it.
C17_FusedScoreMonotone ==
  HybridReturned =>
    LET lexical == CallLexicalHits
        vector == CallVectorHits
    IN \A id \in SeqIds(lexical) \cup SeqIds(vector) :
         /\ \A i \in 2..Len(lexical) :
              lexical[i].id = id =>
                DocScore(MovedEarlier(lexical, i), vector, id) >= DocScore(lexical, vector, id)
         /\ \A i \in 2..Len(vector) :
              vector[i].id = id =>
                DocScore(lexical, MovedEarlier(vector, i), id) >= DocScore(lexical, vector, id)
         /\ DocScore(lexical, vector, id) >= DocScore(lexical, <<>>, id)
         /\ DocScore(lexical, vector, id) >= DocScore(<<>>, vector, id)

C17_Witness ==
  /\ HybridReturned
  /\ \E id \in Ids :
       /\ Len(CallLexicalHits) >= 2
       /\ CallLexicalHits[2].id = id
       /\ Len(CallVectorHits) >= 2
       /\ CallVectorHits[1].id = id
       /\ CallVectorHits[2].id /= id
       /\ DocScore(CallLexicalHits, CallVectorHits, id) > DocScore(CallLexicalHits, <<>>, id)

FusedScore(id) == DocScore(CallLexicalHits, CallVectorHits, id)
Candidates == SeqIds(CallLexicalHits) \cup SeqIds(CallVectorHits)

\* C18: a hybrid search asks both stores for 3 * limit candidates and returns
\* at most limit of them, as many as there are, each once and with its fused
\* score, in descending order of it; no candidate left out scores strictly
\* above a returned one.
C18_HybridTopLimit ==
  HybridReturned =>
    LET candidates == Candidates
        fused == [id \in candidates |-> FusedScore(id)]
    IN /\ hsOut.asked = {"fulltext", "vector"}
       /\ Len(hsOut.list) <= hsCall.limit
       /\ Len(hsOut.list) = Cardinality(candidates) \/ Len(hsOut.list) = hsCall.limit
       /\ \A i \in 1..Len(hsOut.list) :
            /\ hsOut.list[i].id \in candidates
            /\ hsOut.list[i].rrf_score = fused[hsOut.list[i].id]
            /\ \A j \in 1..Len(hsOut.list) : i /= j => hsOut.list[i].id /= hsOut.list[j].id
       /\ \A i \in 1..Len(hsOut.list) - 1 :
            hsOut.list[i].rrf_score >= hsOut.list[i + 1].rrf_score
       /\ \A id \in candidates \ SeqIds(hsOut.list) :
            \A i \in 1..Len(hsOut.list) : fused[id] <= hsOut.list[i].rrf_score

C18_Witness ==
  /\ HybridReturned
  /\ hsCall.limit = 1
  /\ Len(CallLexicalHits) > hsCall.limit
  /\ Len(hsOut.list) = 1
  /\ \E id \in Candidates : FusedScore(id) < hsOut.list[1].rrf_score

\* C19: a keyword-only search asks the Lexical Index alone and returns its
\* first limit hits in its order, the hit at position r with score
\* 1/(60 + r + 1), its raw lexical score and no distance; a vector-only search
\* asks the Vector Store alone and returns its first limit hits likewise, with
\* the distance and no lexical score.
C19_SingleStoreModes ==
  /\ (hsCall.kind = "keyword" /\ hsOut.ok) =>
       LET hits == FtSearch(hsReader, hsCall.query, Len(hsReader)).hits
       IN /\ hsOut.asked = {"fulltext"}
          /\ Len(hsOut.list) = IF Len(hits) < hsCall.limit THEN Len(hits) ELSE hsCall.limit
          /\ \A i \in 1..Len(hsOut.list) :
               hsOut.list[i] = [id |-> hits[i].id, rrf_score |-> RrfUnit \div (60 + (i - 1) + 1),
                                bm25_score |-> <<hits[i].score>>, vector_distance |-> <<>>]
  /\ hsCall.kind = "vector" =>
       LET hits == VecSearchSimilar(hsRows, hsCall.emb, Len(hsRows))
       IN /\ hsOut.ok
          /\ hsOut.asked = {"vector"}
          /\ Len(hsOut.list) = IF Len(hits) < hsCall.limit THEN Len(hits) ELSE hsCall.limit
          /\ \A i \in 1..Len(hsOut.list) :
               hsOut.list[i] = [id |-> hits[i].id, rrf_score |-> RrfUnit \div (60 + (i - 1) + 1),
                                bm25_score |-> <<>>, vector_distance |-> <<hits[i].score>>]

C19_Witness ==
  /\ hsCall.kind = "keyword"
  /\ hsOut.ok
  /\ Len(hsOut.list) = 2
  /\ hsRows /= <<>>
  /\ hsOut.list[1].bm25_score /= <<hsOut.list[1].rrf_score>>

\* C20: a search whose lexical query does not parse, in keyword-only or in
\* hybrid mode, returns the error and no result, the vector hits included,
\* and leaves both stores as they were.
C20_ParseFailureIsAnError ==
  [][(hsCall'.kind \in {"keyword", "hybrid"} /\ hsCall'.query = BadQuery)
       => /\ ~hsOut'.ok
          /\ hsOut'.list = <<>>
          /\ "vector" \notin hsOut'.asked
          /\ hsReader' = hsReader
          /\ hsRows' = hsRows]_vars

C20_Witness ==
  /\ hsCall.kind = "hybrid"
  /\ hsCall.query = BadQuery
  /\ ~hsOut.ok
  /\ hsReader /= <<>>
  /\ VecSearchSimilar(hsRows, hsCall.emb, 3 * hsCall.limit) /= <<>>

\* ------------------------------------------- Vector Store driven directly

\* The records written: each id in several versions, told apart by the title.
VersionedPapers == [id : Ids, title : 1..MaxVersions]

\* VectorStore::add_paper(paper, embedding), the embedding of the right length
VecAddPaperCall(paper) ==
  /\ Len(rows) < MaxRows
  /\ rows' = VecAddPaper(rows, paper, mock_embedding(paper.title))
  /\ vsLast' = [op |-> "add_paper", id |-> paper.id, got |-> NoPaper]
  /\ UNCHANGED <<slPapers, gpVars, srvVars, ftVars, fedVars, ddResults, ddLimit, ddOut, ddPc, hsReader, hsRows, hsCall,
                 hsOut, pc, call, steps, rows0, result, nCalls, deleted, vecWriteFailed,
                 otherFailure, interrupted>>

\* VectorStore::delete(id)
VecDeleteCall(id) ==
  /\ rows' = VecDelete(rows, id)
  /\ vsLast' = [op |-> "delete", id |-> id, got |-> NoPaper]
  /\ UNCHANGED <<slPapers, gpVars, srvVars, ftVars, fedVars, ddResults, ddLimit, ddOut, ddPc, hsReader, hsRows, hsCall,
                 hsOut, pc, call, steps, rows0, result, nCalls, deleted, vecWriteFailed,
                 otherFailure, interrupted>>

\* VectorStore::get_paper(id), as LocalIndex::get_paper passes it on
VecGetPaperCall(id) ==
  /\ vsLast' = [op |-> "get_paper", id |-> id, got |-> VecGetPaper(rows, id)]
  /\ UNCHANGED <<slPapers, gpVars, srvVars, ftVars, ixVars, fedVars, ddResults, ddLimit, ddOut, ddPc, hsReader, hsRows,
                 hsCall, hsOut>>

NextVector ==
  \/ \E paper \in VersionedPapers : VecAddPaperCall(paper)
  \/ \E id \in Ids : VecDeleteCall(id)
  \/ \E id \in Ids : VecGetPaperCall(id)

SpecVector == Init /\ [][NextVector]_vars

\* ------------------------------------------------- claims: Vector Store

\* C22: get_paper(id) returns none when no row has the id, and otherwise the
\* record of the row written last among the rows of the id.
C22_GetReturnsMostRecent ==
  vsLast.op = "get_paper" =>
    LET at == RowsOf(rows, vsLast.id)
    IN IF at = {} THEN vsLast.got = NoPaper
       ELSE LET last == CHOOSE i \in at : \A k \in at : k <= i
            IN vsLast.got = [id |-> rows[last].id, title |-> rows[last].title]

\* ------------------------------------------------------------ search_local

\* Mutant of resolve_results: an id that does not resolve is an error.
resolve_results_ErrOnMissing(rs, scored, failed) ==
  IF \/ failed /\ scored /= <<>>
     \/ \E i \in 1..Len(scored) : VecGetPaper(rs, scored[i].id) = NoPaper
    THEN [ok |-> FALSE, failed |-> failed /\ scored /= <<>>, papers |-> <<>>]
    ELSE [ok |-> TRUE, failed |-> FALSE,
          papers |-> [i \in 1..Len(scored) |-> VecGetPaper(rs, scored[i].id)]]

\* resolve_results: one get_paper per scored result, in order; a record is
\* pushed when get_paper returns Some, nothing when it returns None, and the
\* error of a get_paper the store could not answer is returned by `?`.
resolve_results(rs, scored, failed) ==
  IF failed /\ scored /= <<>>
    THEN [ok |-> FALSE, failed |-> TRUE, papers |-> <<>>]
    ELSE [ok |-> TRUE, failed |-> FALSE,
          papers |-> SelectSeq([i \in 1..Len(scored) |-> VecGetPaper(rs, scored[i].id)],
                               LAMBDA paper : paper /= NoPaper)]

\* search_local, inside the guard: idx.search(mode, limit), whose error is
\* returned, then resolve_results on what it returned; failed says that the
\* store could not answer the lookups.
SearchLocalCall(mode, limit, failed) ==
  LET res == HybridSearch(hsReader, hsRows, mode, limit)
  IN /\ hsCall = NoSearch
     /\ hsCall' = [kind |-> mode.kind, query |-> mode.query, emb |-> mode.emb,
                    limit |-> limit]
     /\ IF res.ok
          THEN \E out \in res.outs :
                 /\ hsOut' = [ok |-> TRUE, asked |-> res.asked, list |-> out]
                 /\ slPapers' = resolve_results(hsRows, out, failed)
          ELSE /\ hsOut' = [ok |-> FALSE, asked |-> res.asked, list |-> <<>>]
               /\ slPapers' = [ok |-> FALSE, failed |-> FALSE, papers |-> <<>>]
     /\ UNCHANGED <<ftVars, ixVars, fedVars, vsLast, gpVars, srvVars, ddResults, ddLimit, ddOut, ddPc,
                    hsReader, hsRows>>

NextSearchLocal ==
  \E mode \in Modes, limit \in Limits, failed \in BOOLEAN : SearchLocalCall(mode, limit, failed)

SpecSearchLocal == InitHybrid /\ [][NextSearchLocal]_vars

\* ------------------------------------------------- claims: search_local

\* The scored results whose id has a row in the Vector Store.
Resolvable(scored) == SelectSeq(scored, LAMBDA sr : RowsOf(hsRows, sr.id) /= {})

target_source(params) ==
  IF IsSome(params.source) THEN params.source
  ELSE CASE params.prefix = "arxiv:" -> Some(<<"a", "r", "x", "i", "v">>)
         [] params.prefix = "ads:" -> Some(<<"a", "d", "s">>)
         [] params.prefix = "doi:" -> Some(<<"c", "r", "o", "s", "s", "r", "e", "f">>)
         [] params.prefix = "doaj:" -> Some(<<"d", "o", "a", "j">>)
         [] OTHER -> None

\* The guard of the loop body: a provider is skipped when a target is set and
\* its name is not the target's, whatever the case of the letters.
Eligible(params, i) ==
  LET target == target_source(params)
  IN IsSome(target) => EqIgnoreAsciiCase(sources[i], target[1])

GetPaperParams ==
  [source : {None, Some(<<"A", "D", "S">>), Some(<<"c", "o", "r", "e">>)},
   prefix : {"arxiv:", "ads:", "doi:", "doaj:", ""}]

InitGetPaper ==
  /\ InitFt
  /\ InitIx
  /\ FedIdle
  /\ DedupIdle
  /\ HybridIdle
  /\ vsLast = NoVecCall
  /\ slPapers = NoResolve
  /\ ServerIdle
  /\ source_filter = None
  /\ max_results = 0
  /\ responses = [i \in Providers |-> Ok(<<>>)]
  /\ gpParams \in GetPaperParams
  /\ gpLocal \in LookupAnswers
  /\ gpAnswers \in [Providers -> LookupAnswers]
  /\ gpPc = "local"
  /\ gpAt = 1
  /\ gpAsked = <<>>
  /\ gpResult = [kind |-> "none", from |-> 0]

\* Mutant of AfterProvider: the error of a provider ends the lookup.
AfterProvider_FailsOnError(answer) ==
  CASE answer = "some" -> "paper"
    [] answer = "none" -> "continue"
    [] OTHER -> "error"

\* The match on src.get_paper(id).await: Ok(Some) returns the record, Ok(None)
\* and Err go on to the next provider.
AfterProvider(answer) ==
  CASE answer = "some" -> "paper"
    [] answer = "none" -> "continue"
    [] OTHER -> "continue"

\* "Check local index first": under the guard, idx.get_paper(id); the record
\* is returned on Ok(Some), anything else falls through to the providers.
GetPaperLocal ==
  /\ gpPc = "local"
  /\ IF gpLocal = "some"
       THEN /\ gpResult' = [kind |-> "paper", from |-> 0]
            /\ gpPc' = "done"
       ELSE /\ gpPc' = "loop"
            /\ UNCHANGED gpResult
  /\ UNCHANGED <<ftVars, ixVars, fedVars, ddResults, ddLimit, ddOut, ddPc, hsReader, hsRows,
                 hsCall, hsOut, vsLast, slPapers, srvVars, gpParams, gpLocal, gpAnswers, gpAt, gpAsked>>

\* One turn of `for src in self.sources.iter()`.
GetPaperProvider ==
  /\ gpPc = "loop"
  /\ gpAt \in Providers
  /\ IF ~Eligible(gpParams, gpAt)
       THEN /\ gpAt' = gpAt + 1
            /\ UNCHANGED <<gpPc, gpAsked, gpResult>>
       ELSE LET after == AfterProvider(gpAnswers[gpAt])
            IN /\ gpAsked' = Append(gpAsked, gpAt)
               /\ gpAt' = IF after = "continue" THEN gpAt + 1 ELSE gpAt
               /\ gpPc' = IF after = "continue" THEN gpPc ELSE "done"
               /\ gpResult' = CASE after = "paper" -> [kind |-> "paper", from |-> gpAt]
                                 [] after = "error" -> [kind |-> "error", from |-> gpAt]
                                 [] OTHER -> gpResult
  /\ UNCHANGED <<ftVars, ixVars, fedVars, ddResults, ddLimit, ddOut, ddPc, hsReader, hsRows,
                 hsCall, hsOut, vsLast, slPapers, srvVars, gpParams, gpLocal, gpAnswers>>

\* After the loop: CallToolResult::success("Paper not found: ..").
GetPaperNotFound ==
  /\ gpPc = "loop"
  /\ gpAt = Len(sources) + 1
  /\ gpPc' = "done"
  /\ gpResult' = [kind |-> "not_found", from |-> 0]
  /\ UNCHANGED <<ftVars, ixVars, fedVars, ddResults, ddLimit, ddOut, ddPc, hsReader, hsRows,
                 hsCall, hsOut, vsLast, slPapers, srvVars, gpParams, gpLocal, gpAnswers, gpAt, gpAsked>>

NextGetPaper ==
  \/ GetPaperLocal
  \/ GetPaperProvider
  \/ GetPaperNotFound

SpecGetPaper == InitGetPaper /\ [][NextGetPaper]_vars

\* ---------------------------------------------------- claims: get_paper

\* The eligible providers, in list order.
EligibleProviders ==
  SelectSeq([i \in Providers |-> i],
            LAMBDA i : \/ ~IsSome(gpParams.source) /\ gpParams.prefix = ""
                       \/ /\ IsSome(gpParams.source)
                          /\ ToLowercase(sources[i]) = ToLowercase(gpParams.source[1])
                       \/ /\ ~IsSome(gpParams.source)
                          /\ <<gpParams.prefix, sources[i]>> \in
                               {<<"arxiv:", <<"a", "r", "x", "i", "v">> >>,
                                <<"ads:", <<"a", "d", "s">> >>,
                                <<"doaj:", <<"d", "o", "a", "j">> >>})

\* The positions, in the eligible list, of the providers that hold the record.
Finders == {k \in 1..Len(EligibleProviders) : gpAnswers[EligibleProviders[k]] = "some"}

\* C24: a finished lookup has returned the local record, asking no provider,
\* when the local index holds it; otherwise it has asked the eligible
\* providers in list order up to the first that holds the record and returned
\* that record, or asked them all and returned "not found"; never an error.
C24_LocalFirstThenProvidersInOrder ==
  gpPc = "done" =>
    /\ gpResult.kind /= "error"
    /\ IF gpLocal = "some"
         THEN gpResult = [kind |-> "paper", from |-> 0] /\ gpAsked = <<>>
         ELSE IF Finders = {}
           THEN gpResult = [kind |-> "not_found", from |-> 0] /\ gpAsked = EligibleProviders
           ELSE LET first == CHOOSE k \in Finders : \A j \in Finders : k <= j
                IN /\ gpResult = [kind |-> "paper", from |-> EligibleProviders[first]]
                   /\ gpAsked = SubSeq(EligibleProviders, 1, first)

\* The local index failed, the first provider failed, the second had nothing
\* and the third returned the record.
C24_Witness ==
  /\ gpPc = "done"
  /\ gpLocal = "err"
  /\ gpAsked = <<1, 2, 3>>
  /\ gpAnswers[1] = "err"
  /\ gpAnswers[2] = "none"
  /\ gpResult = [kind |-> "paper", from |-> 3]

\* ------------------------------------------------- server: the index guard

IndexTools == {"index_paper", "index_from_query"}
ReadTools == {"search_local", "search_similar", "get_paper"}

\* The record of an id, as the providers return it.
Fetched(id) == [id |-> id, title |-> ((id - 1) % NumTitles) + 1]

\* The records a tool invocation has to index: the one index_paper fetched,
\* or the list federated_search returned to index_from_query (the records of
\* the first n ids, for some n).
Batches(tool) ==
  CASE tool = "index_paper" -> {<<Fetched(id)>> : id \in Ids}
    [] tool = "index_from_query" ->
         {[i \in 1..n |-> Fetched(i)] : n \in 0..NumIds}
    [] OTHER -> {<<>>}

\* What the server's actions leave alone.
srvFrame == <<ftPending, ftLast, pc, call, steps, rows0, result, deleted, vecWriteFailed,
              otherFailure, interrupted, fedVars, ddResults, ddLimit, ddOut, ddPc, hsReader,
              hsRows, hsCall, hsOut, vsLast, slPapers, gpVars>>

\* Mutant of CanLock: lock() returns at once, whoever holds the guard.
CanLock_Always(holder) == TRUE

\* self.local_index.lock().await completes when nobody holds the guard.
CanLock(holder) == holder = 0

\* An invocation inside the orchestrator: between lock() and the drop of the guard.
Inside(t) == thPc[t] \in {"ip_stage", "ip_vec", "ip_commit", "read", "resolve"}

\* The calls into the orchestrator a tool invocation makes: one per record
\* to index, one for a search or lookup.
OrchestratorCalls(tool, todo) == IF tool \in IndexTools THEN Len(todo) ELSE 1

\* A tool is invoked, in the first free slot. What the tool does before
\* lock() (asking the providers, federated_search) touches no state of the index.
ToolInvoked(t, tool, todo) ==
  /\ thPc[t] = "idle"
  /\ \A u \in 1..(t - 1) : thPc[u] /= "idle"
  /\ nCalls + OrchestratorCalls(tool, todo) <= MaxCalls
  /\ nCalls' = nCalls + OrchestratorCalls(tool, todo)
  /\ thPc' = [thPc EXCEPT ![t] = "lock"]
  /\ thTool' = [thTool EXCEPT ![t] = tool]
  /\ thTodo' = [thTodo EXCEPT ![t] = todo]
  /\ thSaw' = [thSaw EXCEPT ![t] = FALSE]
  /\ UNCHANGED <<srvFrame, mutex, rows, ftStaged, ftCommitted, ftReader>>

\* let idx = self.local_index.lock().await
Lock(t) ==
  /\ thPc[t] = "lock"
  /\ CanLock(mutex)
  /\ mutex' = t
  /\ thPc' = [thPc EXCEPT ![t] = IF thTool[t] \in ReadTools THEN "read"
                                  ELSE IF thTodo[t] = <<>> THEN "return" ELSE "ip_stage"]
  /\ UNCHANGED <<srvFrame, nCalls, thTool, thTodo, thSaw, rows, ftStaged, ftCommitted, ftReader>>

\* Where an invocation goes when index_paper_mock has returned for the head
\* of its list: index_from_query goes on with the next record whatever the
\* outcome, index_paper returns.
AfterRecord(t) == IF Len(thTodo[t]) > 1 THEN "ip_stage" ELSE "return"

\* index_paper_mock, first statement: self.fulltext.add_paper(..)?
SrvStage(t, ok) ==
  /\ thPc[t] = "ip_stage"
  /\ ftStaged' = FtAddPaper(ftStaged, thTodo[t][1].id, thTodo[t][1].title, ok)
  /\ thPc' = [thPc EXCEPT ![t] = IF ok THEN "ip_vec" ELSE AfterRecord(t)]
  /\ thTodo' = [thTodo EXCEPT ![t] = IF ok THEN @ ELSE Tail(@)]
  /\ UNCHANGED <<srvFrame, nCalls, mutex, thTool, thSaw, rows, ftCommitted, ftReader>>

\* index_paper_mock, second statement: self.vector.add_paper(..).await?
SrvVector(t, ok) ==
  /\ thPc[t] = "ip_vec"
  /\ rows' = IF ok THEN VecAddPaper(rows, thTodo[t][1], mock_embedding(thTodo[t][1].title))
             ELSE rows
  /\ thPc' = [thPc EXCEPT ![t] = IF ok THEN "ip_commit" ELSE AfterRecord(t)]
  /\ thTodo' = [thTodo EXCEPT ![t] = IF ok THEN @ ELSE Tail(@)]
  /\ UNCHANGED <<srvFrame, nCalls, mutex, thTool, thSaw, ftStaged, ftCommitted, ftReader>>

\* index_paper_mock, third statement: self.fulltext.commit()?
SrvCommit(t, outcome) ==
  /\ thPc[t] = "ip_commit"
  /\ ftCommitted' = FtWriterCommit(ftCommitted, ftStaged, outcome)
  /\ ftStaged' = FtStagedAfterCommit(ftStaged, outcome)
  /\ ftReader' = FtReaderAfterCommit(ftReader, ftCommitted, ftStaged, outcome)
  /\ thPc' = [thPc EXCEPT ![t] = AfterRecord(t)]
  /\ thTodo' = [thTodo EXCEPT ![t] = Tail(@)]
  /\ UNCHANGED <<srvFrame, nCalls, mutex, thTool, thSaw, rows>>

\* Some other invocation is between its Vector Store write and its commit.
RowAwaitsCommit(t) == \E u \in Threads \ {t} : thPc[u] = "ip_commit"

\* idx.search(..) of search_local, idx.vector.search_similar(..) of
\* search_similar, idx.get_paper(..) of get_paper: a read of the stores.
SrvRead(t) ==
  /\ thPc[t] = "read"
  /\ thSaw' = [thSaw EXCEPT ![t] = @ \/ RowAwaitsCommit(t)]
  /\ thPc' = [thPc EXCEPT ![t] = IF thTool[t] = "get_paper" THEN "return" ELSE "resolve"]
  /\ UNCHANGED <<srvFrame, nCalls, mutex, thTool, thTodo, rows, ftStaged, ftCommitted, ftReader>>

\* resolve_results of search_local, the get_paper loop of search_similar: a
\* second read of the Vector Store under the same guard.
SrvResolve(t) ==
  /\ thPc[t] = "resolve"
  /\ thSaw' = [thSaw EXCEPT ![t] = @ \/ RowAwaitsCommit(t)]
  /\ thPc' = [thPc EXCEPT ![t] = "return"]
  /\ UNCHANGED <<srvFrame, nCalls, mutex, thTool, thTodo, rows, ftStaged, ftCommitted, ftReader>>

\* The tool returns (or the block of get_paper ends): the guard is dropped.
SrvReturn(t) ==
  /\ thPc[t] = "return"
  /\ mutex' = IF mutex = t THEN 0 ELSE mutex
  /\ thPc' = [thPc EXCEPT ![t] = "idle"]
  /\ thTool' = [thTool EXCEPT ![t] = "none"]
  /\ UNCHANGED <<srvFrame, nCalls, thTodo, thSaw, rows, ftStaged, ftCommitted, ftReader>>

NextServer ==
  \E t \in Threads :
    \/ \E tool \in IndexTools \cup ReadTools : \E todo \in Batches(tool) : ToolInvoked(t, tool, todo)
    \/ Lock(t)
    \/ \E ok \in BOOLEAN : SrvStage(t, ok)
    \/ \E ok \in BOOLEAN : SrvVector(t, ok)
    \/ \E outcome \in CommitOutcomes : SrvCommit(t, outcome)
    \/ SrvRead(t)
    \/ SrvResolve(t)
    \/ SrvReturn(t)

SpecServer == Init /\ [][NextServer]_vars

\* ------------------------------------------------------- claims: the guard

\* C25: at most one tool invocation is inside the orchestrator at any time,
\* and no read of a search or lookup happened while another invocation's
\* index_paper had written its Vector Store row and not yet committed the
\* Lexical Index.
C25_OneInsideNoIntermediateRead ==
  /\ \A t, u \in Threads : (Inside(t) /\ Inside(u)) => t = u
  /\ \A t \in Threads : Inside(t) => mutex = t
  /\ \A t \in Threads : ~thSaw[t]

\* One invocation is between its Vector Store write and its commit while a
\* search or lookup waits for the guard, every call the bound allows invoked.
C25_Witness ==
  \E t, u \in Threads :
    /\ thPc[t] = "ip_commit"
    /\ thPc[u] = "lock"
    /\ thTool[u] \in ReadTools
    /\ nCalls = MaxCalls

\* ------------------------------------------ search_papers: the fetch quota

\* search_papers: params.max_results.unwrap_or(10).min(100)
SearchPapersCap(requested) == Min2(UnwrapOr(requested, DefaultMaxResults), MaxResultsCap)

\* federated_search as search_papers calls it: the cap the tool computes, any
\* name filter, providers that answer.
InitQuota ==
  /\ InitFt
  /\ InitIx
  /\ FedIdle
  /\ ToolsIdle
  /\ DedupIdle
  /\ HybridIdle
  /\ source_filter \in Filters
  /\ \E requested \in {None} \cup {Some(k) : k \in 0..MaxRequest} :
       max_results = SearchPapersCap(requested)
  /\ responses = [i \in Providers |-> IF i = 1 THEN Ok(<<PA2>>) ELSE Ok(<<PA1, PB1>>)]

SpecQuota == InitQuota /\ [][NextFed]_vars

\* The providers remaining after the name filter.
Remaining == {i \in Providers : Requested(i)}

\* C26: every provider dispatched by an invocation was asked for
\* max(5, floor(2*cap / n)), n the number of providers remaining after the
\* name filter; the cap is one the tool allows, 2*cap fits 32 unsigned bits,
\* and the quota is at least 5.
C26_QuotaPerDispatchedProvider ==
  \A r \in Runs : \A k \in 1..Len(spawned[r]) :
    LET n == Cardinality(Remaining)
        floor == CHOOSE q \in 0..(2 * max_results) :
                   q * n <= 2 * max_results /\ 2 * max_results < (q + 1) * n
        asked == quota[r][spawned[r][k]]
    IN /\ max_results \in 0..MaxResultsCap
       /\ (2 * max_results) \div 65536 < 65536
       /\ asked = (IF floor > 5 THEN floor ELSE 5)
       /\ asked >= 5

\* The filter leaves two of the three providers and the cap is 7: both were
\* asked for 7 records (with all three counted the quota would be 5); and
\* the cap 0 was asked with quota 5.
C26_Witness ==
  /\ fedPc[1] = "done"
  /\ spawned[1] = <<2, 3>>
  /\ max_results = 7
  /\ quota[1] = [i \in Providers |-> IF i = 1 THEN 0 ELSE 7]

\* ------------------------------------ claims: deduplicate_and_rank, titles

\* C27 as stated: no two records of the output have normalized titles fewer
\* than 5 edits apart, with or without a DOI.
C27_NoCloseTitlesInOutput ==
  ddPc = "returned" =>
    \A i, j \in 1..Len(ddOut) :
      i /= j => TitleDistance(ddOut[i], ddOut[j]) >= 5

\* C27, amended: no two records of the output that both lack a DOI have
\* normalized titles fewer than 5 edits apart.
C27_NoCloseTitlesAmongNoDoi ==
  ddPc = "returned" =>
    \A i, j \in 1..Len(ddOut) :
      (i /= j /\ ~IsSome(ddOut[i].doi) /\ ~IsSome(ddOut[j].doi))
        => TitleDistance(ddOut[i], ddOut[j]) >= 5

\* Of two records without a DOI and close titles one was dropped, while a
\* record with a DOI was kept next to the survivor under the same title.
C27_Witness ==
  /\ ddPc = "returned"
  /\ ddResults = <<DupX, DupA, DoiP>>
  /\ InList(ddOut, DupX)
  /\ InList(ddOut, DoiP)
  /\ ~InList(ddOut, DupA)

\* ------------------------- claims: deduplicate_and_rank, algebraic relations

\* The input lists that hold the same records as the call's, in any order.
Reorderings == {list \in InputLists : IsPermutation(list, ddResults)}

\* C28: with a limit of at least the input length, deduplicate_and_rank
\* applied to its own output returns that output, and applied to any
\* permutation of the input it keeps as many records as it kept of the input.
C28_IdempotentOrderInsensitive ==
  (ddPc = "returned" /\ ddLimit >= Len(ddResults))
    => /\ deduplicate_and_rank(ddOut, ddLimit) = ddOut
       /\ \A list \in Reorderings :
            Len(deduplicate_and_rank(list, ddLimit)) = Len(ddOut)

\* --------------------------------------- claims: LocalIndex, both stores

\* C29: after any sequence of index_paper and delete calls, every result
\* list of a local search, in every mode, holds each id at most once, and
\* the list of records resolved from it holds each record at most once.
C29_EachIdOnce ==
  pc = "idle" =>
    \A mode \in Modes, limit \in Limits :
      \A out \in HybridSearch(ftReader, rows, mode, limit).outs :
        /\ DistinctIds(out)
        /\ LET papers == resolve_results(rows, out, FALSE).papers
           IN \A i \in 1..Len(papers) : Occurrences(papers, papers[i]) = 1

\* C30: when no step has failed and the process has not crashed, after every
\* completed index_paper or delete the ids committed in the Lexical Index
\* are the ids with a row in the Vector Store, and the record a successful
\* index_paper indexed is found by a lexical search for its text, by a
\* vector search with its embedding, and by get_paper.
C30_StoresAgreeWithoutFailure ==
  (pc = "idle" /\ NoFailureBut(FALSE)) =>
    /\ SeqIds(ftCommitted) = SeqIds(rows)
    /\ SeqIds(ftReader) = SeqIds(rows)
    /\ (call.op = "index_paper" /\ result = "ok") =>
         /\ call.paper.id \in SeqIds(FtSearch(ftReader, {call.paper.title}, Len(ftReader)).hits)
         /\ call.paper.id \in SeqIds(VecSearchSimilar(rows, call.emb, Len(rows)))
         /\ VecGetPaper(rows, call.paper.id).id = call.paper.id

\* Three calls without a failure: a record was indexed, another id was
\* deleted after being indexed, and both stores hold exactly the first.
C30_Witness ==
  /\ pc = "idle"
  /\ NoFailureBut(FALSE)
  /\ nCalls = MaxCalls
  /\ deleted /= {}
  /\ SeqIds(rows) /= {}
  /\ SeqIds(ftReader) = SeqIds(rows)
  /\ \E id \in deleted : id \notin SeqIds(rows)

====
